---- MODULE Spec2Model ----
(***************************************************************************)
(* Model of the playground front-end.  Two iterations of the App component *)
(* are modelled side by side and selected by `variant`:                    *)
(*   "unified" : src/src/App.js lines 630-1196 (one `files` list, one      *)
(*               activeFileIdx, local-storage autosave, zip import/export) *)
(*   "perkind" : src/src/App.js lines 1-628 (htmlFiles / jsFiles / css,    *)
(*               activeHtml / activeJs, layout and fullscreen toggles)     *)
(* Text (file names, file contents, JSON text, the preview document) is a  *)
(* sequence of tokens; a token is a run of characters holding no newline,  *)
(* no dot, no quote and no backslash, or one of those characters alone.    *)
(* Array indices are 0-based as in the source; At(s, i) reads s[i].        *)
(* A handler's state updates are applied together in one render, followed  *)
(* by that render's effects (React batches the updates of one handler).    *)
(***************************************************************************)
EXTENDS Integers, Sequences, FiniteSets, TLC

VARIABLES
    variant,        \* which iteration of App runs
    files,          \* unified: const [files, setFiles]
    activeFileIdx,  \* unified: const [activeFileIdx, setActiveFileIdx]
    storage,        \* unified: localStorage entries vibe_files / vibe_active
    storageFull,    \* unified: the keys for which localStorage.setItem throws (quota used up)
    exported,       \* unified: the archive downloadZip last handed to saveAs
    py,             \* unified: window.loadPyodide, pyodideRef and the runPython calls in flight
    pyOutput,       \* unified: const [pyOutput, setPyOutput]
    uploads,        \* unified: handleZipUpload calls awaiting JSZip
    crashed,        \* the host tree was unmounted by an error thrown in render
    htmlFiles,      \* perkind: const [htmlFiles, setHtmlFiles]
    activeHtml,     \* perkind: const [activeHtml, setActiveHtml]
    jsFiles,        \* perkind: const [jsFiles, setJsFiles]
    activeJs,       \* perkind: const [activeJs, setActiveJs]
    css,            \* perkind: const [css, setCss]
    layout,         \* perkind: const [layout, setLayout]
    fullScreen,     \* perkind: const [fullScreen, setFullScreen]
    surface,        \* the iframe behind iframeRef: mounted or not, and its srcdoc
    timers,         \* pending setTimeout callbacks of the preview effect
    sinceChange,    \* history: time since the previewed sources last changed (capped at Delay)
    fires,          \* history: preview timer callbacks run since that change
    assigns,        \* history: srcdoc assignments since that change
    burst,          \* history: changes in the current burst (0 after a page load; capped at 2)
    last,           \* history: the operation that produced this state
    ops             \* history: number of user operations performed

vars == <<variant, files, activeFileIdx, storage, storageFull, exported, py, pyOutput, uploads, crashed,
          htmlFiles, activeHtml, jsFiles, activeJs, css, layout, fullScreen,
          surface, timers, sinceChange, fires, assigns, burst, last, ops>>

unifiedVars == <<files, activeFileIdx, storage, uploads, crashed>>
pyVars == <<py, pyOutput>>
perkindVars == <<htmlFiles, activeHtml, jsFiles, activeJs, css, layout, fullScreen>>

----------------------------------------------------------------------------
(* Bounds of the model *)

\* most user operations in one behaviour
MaxOps == 2
\* largest step by which the clock advances
Quantum == 200

(* Program constants *)

\* setTimeout(..., 400)
Delay == 400

----------------------------------------------------------------------------
(* Text *)

NL == "\n"
DOT == "."
QUOTE == "\""
BACKSLASH == "\\"

At(s, i) == s[i + 1]

Min(a, b) == IF a < b THEN a ELSE b

RECURSIVE Join(_, _)
\* Array.prototype.join: the texts of ss with sep between neighbours
Join(ss, sep) ==
    IF Len(ss) = 0 THEN <<>>
    ELSE IF Len(ss) = 1 THEN ss[1]
    ELSE ss[1] \o <<sep>> \o Join(Tail(ss), sep)

\* a filter that takes idx for a 1-based position
RemoveAtOneBased(s, idx) == [i \in 1..(Len(s) - 1) |-> IF i < idx THEN s[i] ELSE s[i + 1]]

\* Array.prototype.filter((_, i) => i !== idx), idx 0-based
RemoveAt(s, idx) == [i \in 1..(Len(s) - 1) |-> IF i <= idx THEN s[i] ELSE s[i + 1]]

\* a rename that counts the files from 1
RenamedOneBased(s, idx, newName) ==
    [i \in 1..Len(s) |-> IF i = idx THEN [s[i] EXCEPT !.name = newName] ELSE s[i]]

\* files.map((f, i) => i === idx ? {...f, name: newName} : f), idx 0-based
Renamed(s, idx, newName) ==
    [i \in 1..Len(s) |-> IF i = idx + 1 THEN [s[i] EXCEPT !.name = newName] ELSE s[i]]

\* files.map((f, i) => i === idx ? {...f, code} : f), idx 0-based
Recoded(s, idx, code) ==
    [i \in 1..Len(s) |-> IF i = idx + 1 THEN [s[i] EXCEPT !.code = code] ELSE s[i]]

OfType(fs, type) == SelectSeq(fs, LAMBDA f : f.type = type)

\* files.map(f => f.code)
Codes(fs) == [i \in 1..Len(fs) |-> fs[i].code]

\* a suffix that writes the number of the first file too
SuffixAlways(n) == ToString(n)

\* `${n > 1 ? n : ""}`
Suffix(n) == IF n > 1 THEN ToString(n) ELSE ""

----------------------------------------------------------------------------
(* File templates *)

LANGUAGES == <<
    [type |-> "html", label |-> "HTML",     ext |-> "html", sample |-> <<"<h1>Hello, Vibe!</h1>">>],
    [type |-> "css",  label |-> "CSS",      ext |-> "css",  sample |-> <<"h1 { color: #0099ff; }">>],
    [type |-> "js",   label |-> "JS",       ext |-> "js",   sample |-> <<"console", DOT, "log('Hello, JS!')">>],
    [type |-> "py",   label |-> "Python",   ext |-> "py",   sample |-> <<"print('Hello, Python!')">>],
    [type |-> "md",   label |-> "Markdown", ext |-> "md",   sample |-> <<"# Hello, Markdown!">>] >>

Kinds == {LANGUAGES[i].type : i \in 1..Len(LANGUAGES)}

\* LANGUAGES.find(l => l.type === type)
Lang(type) == LANGUAGES[CHOOSE i \in 1..Len(LANGUAGES) : LANGUAGES[i].type = type]

\* String.prototype.toLowerCase on the labels and extensions that occur
ToLowerCase(s) ==
    CASE s = "HTML" -> "html" [] s = "CSS" -> "css" [] s = "JS" -> "js"
      [] s = "Python" -> "python" [] s = "Markdown" -> "markdown"
      [] s = "PY" -> "py" [] s = "TXT" -> "txt" [] OTHER -> s

DEFAULT_FILES == <<
    [name |-> <<"index", DOT, "html">>, type |-> "html", code |-> <<"<h1>Hello, Vibe!</h1>">>],
    [name |-> <<"style", DOT, "css">>,  type |-> "css",  code |-> <<"h1 { color: #0099ff; }">>],
    [name |-> <<"main", DOT, "js">>,    type |-> "js",   code |-> <<"console", DOT, "log('Hello, JS!')">>] >>

defaultHtmlFile(i) ==
    [name |-> <<"index" \o Suffix(i), DOT, "html">>, language |-> "html",
     code |-> <<"<h1>Hello, Vibe " \o ToString(i) \o "!</h1>">>]

defaultJsFile(i) ==
    [name |-> <<"script" \o Suffix(i), DOT, "js">>, language |-> "javascript",
     code |-> <<"console", DOT, "log(", QUOTE, "Vibe JS " \o ToString(i) \o "!", QUOTE, ");">>]

DefaultCss == <<"h1 { color: #0099ff; text-align:center; }">>

----------------------------------------------------------------------------
(* Preview Compositor: buildSrcDoc *)

\* the literal pieces of the template string around ${css}, ${html}, ${js}
DocHead == "<!DOCTYPE html><html lang=en><head><meta charset=UTF-8><title>Preview</title><style>"
DocBody == "</style></head><body>"
DocScript == "<script>try {"
DocTail == "} catch(e) { document.body.innerHTML += <pre style='color:red'> + e + </pre>; }</script></body></html>"

Template(cssText, htmlText, jsText) ==
    <<DocHead>> \o cssText \o <<DocBody>> \o htmlText \o <<DocScript>> \o jsText \o <<DocTail>>

\* a compositor whose script block takes every file that is neither markup nor style
buildSrcDocRest(fs) ==
    LET html == Join(Codes(OfType(fs, "html")), NL)
        cssJ == Join(Codes(OfType(fs, "css")), NL)
        js   == Join(Codes(SelectSeq(fs, LAMBDA f : f.type \notin {"html", "css"})), NL)
    IN  Template(cssJ, html, js)

\* a compositor that writes each script file's name in front of its content
buildSrcDocNamed(fs) ==
    LET html == Join(Codes(OfType(fs, "html")), NL)
        cssJ == Join(Codes(OfType(fs, "css")), NL)
        js   == Join([i \in 1..Len(OfType(fs, "js")) |->
                        OfType(fs, "js")[i].name \o OfType(fs, "js")[i].code], NL)
    IN  Template(cssJ, html, js)

\* unified variant
buildSrcDoc(fs) ==
    LET html == Join(Codes(OfType(fs, "html")), NL)
        cssJ == Join(Codes(OfType(fs, "css")), NL)
        js   == Join(Codes(OfType(fs, "js")), NL)
    IN  Template(cssJ, html, js)

\* per-kind variant
buildSrcDocK(hs, c, js) ==
    Template(c, Join(Codes(hs), NL), Join(Codes(js), NL))

(* What the iframe does with the script block of a document it was given *)

\* the text spliced between "try {" and "}" of the script block
ScriptText(doc) ==
    LET p == CHOOSE i \in 1..Len(doc) : doc[i] = DocScript
    IN  SubSeq(doc, p + 1, Len(doc) - 1)

\* script tokens that occur and are no JavaScript (an unfinished statement), and
\* tokens that raise when evaluated (an identifier nothing defines)
Unparsable == {"for ("}
Undefined == {"a"}

\* how the script block ends: "syntax" when the block as a whole does not parse (the
\* browser reports the error and runs none of it, the try statement included),
\* "thrown" when a statement inside the try raises, "ran" otherwise
ScriptOutcome(doc) ==
    LET js == ScriptText(doc)
    IN  IF \E i \in 1..Len(js) : js[i] \in Unparsable THEN "syntax"
        ELSE IF \E i \in 1..Len(js) : js[i] \in Undefined THEN "thrown"
        ELSE "ran"

\* catch(e) { document.body.innerHTML += "<pre style='color:red'>" + e + "</pre>" } has run
MessageShown(doc) == ScriptOutcome(doc) = "thrown"

----------------------------------------------------------------------------
(* Persistence Shim: JSON.stringify / JSON.parse of the file list, and the   *)
(* two local-storage entries.  An entry that was never written reads as      *)
(* null; null and the empty string are both falsy, so both are the empty     *)
(* text here.                                                                *)

\* one character inside a JSON string literal
Escape(tok) ==
    IF tok = QUOTE THEN <<BACKSLASH, QUOTE>>
    ELSE IF tok = BACKSLASH THEN <<BACKSLASH, BACKSLASH>>
    ELSE IF tok = NL THEN <<BACKSLASH, "n">>
    ELSE <<tok>>

RECURSIVE EscapeAll(_)
EscapeAll(t) == IF t = <<>> THEN <<>> ELSE Escape(Head(t)) \o EscapeAll(Tail(t))

JsonString(t) == <<QUOTE>> \o EscapeAll(t) \o <<QUOTE>>

\* the punctuation JSON.stringify writes around the three members of a file object
ObjName == "{\"name\":"
ObjType == ",\"type\":"
ObjCode == ",\"code\":"
ObjEnd == "}"

JsonFile(f) ==
    <<ObjName>> \o JsonString(f.name) \o <<ObjType>> \o JsonString(<<f.type>>)
                \o <<ObjCode>> \o JsonString(f.code) \o <<ObjEnd>>

RECURSIVE JsonFiles(_)
JsonFiles(fs) ==
    IF fs = <<>> THEN <<>>
    ELSE IF Len(fs) = 1 THEN JsonFile(fs[1])
    ELSE JsonFile(fs[1]) \o <<",">> \o JsonFiles(Tail(fs))

\* JSON.stringify(files)
Stringify(fs) == <<"[">> \o JsonFiles(fs) \o <<"]">>

ParseFail == [ok |-> FALSE, val |-> <<>>, pos |-> 0]

RECURSIVE ParseChars(_, _, _)
\* the characters of a string literal from position p (after the opening quote)
ParseChars(txt, p, acc) ==
    IF p > Len(txt) THEN ParseFail
    ELSE IF txt[p] = QUOTE THEN [ok |-> TRUE, val |-> acc, pos |-> p + 1]
    ELSE IF txt[p] = BACKSLASH THEN
        IF p + 1 > Len(txt) THEN ParseFail
        ELSE IF txt[p + 1] = QUOTE THEN ParseChars(txt, p + 2, Append(acc, QUOTE))
        ELSE IF txt[p + 1] = BACKSLASH THEN ParseChars(txt, p + 2, Append(acc, BACKSLASH))
        ELSE IF txt[p + 1] = "n" THEN ParseChars(txt, p + 2, Append(acc, NL))
        ELSE ParseFail
    ELSE IF txt[p] = NL THEN ParseFail
    ELSE ParseChars(txt, p + 1, Append(acc, txt[p]))

Expect(txt, p, tok) == p <= Len(txt) /\ txt[p] = tok

\* a string literal that follows the punctuation tok at position p
ParseMember(txt, p, tok) ==
    IF Expect(txt, p, tok) /\ Expect(txt, p + 1, QUOTE)
    THEN ParseChars(txt, p + 2, <<>>)
    ELSE ParseFail

\* the element of a set of one element; The({F(v) : v \in {e}}) is F of the value
\* of e, with e evaluated once (const v = e)
The(S) == CHOOSE r \in S : TRUE

\* one file object at position p
ParseObject(txt, p) ==
    The({ IF ~n.ok THEN ParseFail ELSE
          The({ IF ~t.ok \/ Len(t.val) /= 1 THEN ParseFail ELSE
                The({ IF ~c.ok \/ ~Expect(txt, c.pos, ObjEnd) THEN ParseFail
                      ELSE [ok |-> TRUE, pos |-> c.pos + 1,
                            val |-> [name |-> n.val, type |-> t.val[1], code |-> c.val]]
                      : c \in {ParseMember(txt, t.pos, ObjCode)} })
                : t \in {ParseMember(txt, n.pos, ObjType)} })
          : n \in {ParseMember(txt, p, ObjName)} })

RECURSIVE ParseElements(_, _, _)
ParseElements(txt, p, acc) ==
    The({ IF ~o.ok THEN ParseFail
          ELSE IF Expect(txt, o.pos, ",")
               THEN ParseElements(txt, o.pos + 1, Append(acc, o.val))
          ELSE IF Expect(txt, o.pos, "]")
               THEN [ok |-> TRUE, val |-> Append(acc, o.val), pos |-> o.pos + 1]
          ELSE ParseFail
          : o \in {ParseObject(txt, p)} })

\* JSON.parse(saved) for the text of a list of file objects; ok = FALSE when it throws
JsonParse(txt) ==
    IF ~Expect(txt, 1, "[") THEN ParseFail
    ELSE LET r == IF Expect(txt, 2, "]") THEN [ok |-> TRUE, val |-> <<>>, pos |-> 3]
                  ELSE ParseElements(txt, 2, <<>>) IN
         IF r.ok /\ r.pos = Len(txt) + 1 THEN r ELSE ParseFail

\* String(n), as localStorage.setItem coerces its value
NumberToString(n) == ToString(n)

\* Number(s) for the decimal strings that occur; -1 stands for NaN
StringToNumber(s) ==
    IF \E n \in 0..9 : ToString(n) = s
    THEN CHOOSE n \in 0..9 : ToString(n) = s
    ELSE -1

EmptyStorage == [vibe_files |-> <<>>, vibe_active |-> ""]

\* nothing has been downloaded
NoArchive == [ok |-> FALSE, entries |-> <<>>]

\* an initialiser that reads a key nothing is stored under
loadFilesOtherKey(st) == DEFAULT_FILES

\* useState(() => { try { saved ? JSON.parse(saved) : DEFAULT_FILES } catch { DEFAULT_FILES } })
loadFiles(st) ==
    LET saved == st.vibe_files IN
    IF saved /= <<>>
    THEN (LET r == JsonParse(saved) IN IF r.ok THEN r.val ELSE DEFAULT_FILES)
    ELSE DEFAULT_FILES

\* useState(() => saved ? Number(saved) : 0)
loadActive(st) ==
    LET saved == st.vibe_active IN
    IF saved /= "" THEN StringToNumber(saved) ELSE 0

\* useEffect(() => { try { localStorage.setItem("vibe_files", JSON.stringify(files)) } catch {} }, [files])
saveFiles(st, fs) == [st EXCEPT !.vibe_files = Stringify(fs)]

\* an autosave without the second effect
saveActiveSkipped(st, idx) == st

\* useEffect(() => { localStorage.setItem("vibe_active", activeFileIdx) }, [activeFileIdx])
saveActive(st, idx) == [st EXCEPT !.vibe_active = NumberToString(idx)]

----------------------------------------------------------------------------
(* Inputs the user can supply *)

\* texts typed into an editor
EditTexts == { <<"a", NL, QUOTE, "b", QUOTE>> }

\* names typed into a tab's name field
NewNames == { <<"main", DOT, "js">> }

\* kinds the user adds files of: one the preview shows, one it does not
AddTypes == {"css", "py"}

\* what local storage holds when the page is first loaded: nothing, what an earlier
\* session left after removing all files but index.html, or what one left after
\* adding a css file, selecting main.js and leaving an unfinished statement in it
StoredSessions == {
    [vibe_files |-> <<>>, vibe_active |-> ""],
    [vibe_files |-> Stringify(SubSeq(DEFAULT_FILES, 1, 1)), vibe_active |-> "0"],
    [vibe_files |-> Stringify(Append(Recoded(DEFAULT_FILES, 2, <<"for (">>),
                        [name |-> <<"css2", DOT, "css">>, type |-> "css",
                         code |-> <<"h1 { color: #0099ff; }">>])),
     vibe_active |-> "2"] }

\* what local storage may hold that no session of this App wrote: a vibe_files text
\* cut short, the text of an empty list, a vibe_active beyond every list, and a
\* vibe_active that is no number
DamagedSessions == {
    [vibe_files |-> <<"[", "{">>, vibe_active |-> ""],
    [vibe_files |-> <<"[", "]">>, vibe_active |-> ""],
    [vibe_files |-> <<>>, vibe_active |-> "7"],
    [vibe_files |-> <<>>, vibe_active |-> "x"] }

\* what an earlier session left after a script that empties local storage was typed
\* into main.js
MeddlingSessions == {
    [vibe_files |-> Stringify(Recoded(DEFAULT_FILES, 2, <<"localStorage", DOT, "clear()">>)),
     vibe_active |-> "2"] }

\* what an earlier session left after a Python file was added
PythonSessions == {
    [vibe_files |-> Stringify(Append(DEFAULT_FILES,
                        [name |-> <<"python", DOT, "py">>, type |-> "py",
                         code |-> <<"print('Hello, Python!')">>])),
     vibe_active |-> "3"] }

\* zip archives offered for import: JSZip fails to load the first; the others
\* load and hold the listed entries in archive order (the third holds a directory,
\* an upper-case extension and a file whose whole name is md)
Bundles == {
    [ok |-> FALSE, entries |-> <<>>],
    [ok |-> TRUE, entries |-> << [name |-> <<"src/">>, dir |-> TRUE, text |-> <<>>] >>],
    [ok |-> TRUE, entries |-> << [name |-> <<"src/">>, dir |-> TRUE, text |-> <<>>],
                                 [name |-> <<"c", DOT, "PY">>, dir |-> FALSE, text |-> <<"pass">>],
                                 [name |-> <<"a", DOT, "html">>, dir |-> FALSE, text |-> <<"<p>">>],
                                 [name |-> <<"md">>, dir |-> FALSE, text |-> <<"notes">>] >>],
    [ok |-> TRUE, entries |-> << [name |-> <<"d", DOT, "txt">>, dir |-> FALSE, text |-> <<"t">>] >>] }

----------------------------------------------------------------------------
(* The preview effect and the iframe *)

NoSurface == [mounted |-> FALSE, srcdoc |-> <<>>]
FreshSurface == [mounted |-> TRUE, srcdoc |-> <<>>]

\* the iframe element after a render that does (shown) or does not mount it at the
\* place identified by slot; a newly mounted element has no srcdoc
NextSurface(shown, sameSlot) ==
    IF ~shown THEN NoSurface
    ELSE IF surface.mounted /\ sameSlot THEN surface
    ELSE FreshSurface

\* an effect without its cleanup: the earlier timers stay pending
ScheduleRenderNoCleanup(ts, doc) == Append(ts, [left |-> Delay, doc |-> doc])

\* useEffect(() => { const timeout = setTimeout(cb, 400); return () => clearTimeout(timeout) }, deps)
\* re-run: the previous run's cleanup clears its timer, then a new timer starts
\* whose callback closes over the render's sources (doc is what it will build)
ScheduleRender(ts, doc) == << [left |-> Delay, doc |-> doc] >>

\* the history of the current burst after a change to the effect's dependencies
\* a change less than Delay after the previous one continues that change's burst
ChangeSeen ==
    /\ sinceChange' = 0
    /\ fires' = 0
    /\ assigns' = 0
    /\ burst' = IF burst > 0 /\ sinceChange < Delay THEN Min(burst + 1, 2) ELSE 1

\* the history after the first render of a page load
MountSeen ==
    /\ sinceChange' = 0
    /\ fires' = 0
    /\ assigns' = 0
    /\ burst' = 0

NoChangeSeen == UNCHANGED <<sinceChange, fires, assigns, burst>>

Op(name, kind, idx) == [op |-> name, kind |-> kind, idx |-> idx]

\* a user operation: it is recorded in `last` and counted
UserOp(name, kind, idx) ==
    /\ ops < MaxOps
    /\ ops' = ops + 1
    /\ last' = Op(name, kind, idx)

----------------------------------------------------------------------------
(* Unified variant: the view *)

Previewed == {"html", "css", "js"}

\* the render throws: LANGUAGES.find(...) is undefined for a type outside the table
\* (tab bar lang.icon, editor language), or files[activeFileIdx] is undefined
RenderThrows(fs, idx) ==
    \/ \E i \in 1..Len(fs) : fs[i].type \notin Kinds
    \/ idx < 0 \/ idx >= Len(fs)

\* {["html","css","js"].includes(files[activeFileIdx].type) && <iframe ref={iframeRef} .../>}
IframeShown(fs, idx) == At(fs, idx).type \in Previewed

\* localStorage.setItem(key, ...) throws
SetItemThrows(key) == key \in storageFull

\* an effect of the render throws: the vibe_active write is not inside a try block, so
\* when that effect runs (activeSet: activeFileIdx changed, or first render) and setItem
\* throws, the error leaves the effect and React unmounts the tree
EffectThrows(activeSet) == activeSet /\ SetItemThrows("vibe_active")

\* One render of the unified App with state (fs, idx) and the effects it runs.
\* filesSet: setFiles was called (the [files] effects re-run).  When the render or an
\* effect throws the tree is unmounted: the effect cleanups run and nothing is shown.
CommitU(nextFiles, idx, filesSet) ==
  \E fs \in {nextFiles} :
    /\ files' = fs
    /\ activeFileIdx' = idx
    /\ IF RenderThrows(fs, idx) \/ EffectThrows(idx /= activeFileIdx)
       THEN /\ crashed' = TRUE
            /\ surface' = NoSurface
            /\ timers' = <<>>
            /\ UNCHANGED storage
            /\ IF filesSet THEN ChangeSeen ELSE NoChangeSeen
       ELSE /\ crashed' = FALSE
            /\ surface' = NextSurface(IframeShown(fs, idx), TRUE)
            /\ storage' = LET s1 == IF filesSet /\ ~SetItemThrows("vibe_files")
                                    THEN saveFiles(storage, fs) ELSE storage
                          IN  IF idx /= activeFileIdx THEN saveActive(s1, idx) ELSE s1
            /\ IF filesSet
               THEN timers' = ScheduleRender(timers, buildSrcDoc(fs)) /\ ChangeSeen
               ELSE UNCHANGED timers /\ NoChangeSeen

\* First render after a page load with storage st: state initialisers, then every effect
MountU(st) ==
    \E fs \in {loadFiles(st)}, idx \in {loadActive(st)} :
        /\ files' = fs
        /\ activeFileIdx' = idx
        /\ uploads' = <<>>
        /\ IF RenderThrows(fs, idx) \/ EffectThrows(TRUE)
           THEN /\ crashed' = TRUE
                /\ surface' = NoSurface
                /\ timers' = <<>>
                /\ storage' = st
           ELSE /\ crashed' = FALSE
                /\ surface' = IF IframeShown(fs, idx) THEN FreshSurface ELSE NoSurface
                /\ timers' = ScheduleRender(<<>>, buildSrcDoc(fs))
                /\ storage' = saveActive(IF SetItemThrows("vibe_files") THEN st
                                          ELSE saveFiles(st, fs), idx)
        /\ MountSeen

UnifiedIdle ==
    /\ htmlFiles = <<>> /\ activeHtml = 0 /\ jsFiles = <<>> /\ activeJs = 0
    /\ css = <<>> /\ layout = "row" /\ fullScreen = "none"

----------------------------------------------------------------------------
(* Unified variant: the handlers *)

Unified == variant = "unified" /\ ~crashed

\* an addFile that never numbers the name
NewFileUnnumbered(fs, type) ==
    [name |-> <<ToLowerCase(Lang(type).label), DOT, Lang(type).ext>>,
     type |-> type, code |-> Lang(type).sample]

\* function addFile(type)
NewFile(fs, type) ==
    LET base == Lang(type)
        num == Len(OfType(fs, type)) + 1
    IN  [name |-> <<ToLowerCase(base.label) \o Suffix(num), DOT, base.ext>>,
         type |-> type, code |-> base.sample]

addFile(type) ==
    /\ Unified
    /\ CommitU(Append(files, NewFile(files, type)), Len(files), TRUE)
    /\ UserOp("add", type, Len(files))
    /\ UNCHANGED <<variant, pyVars, storageFull, exported, uploads, perkindVars>>

\* a removeFile without the check
RemoveRefusedNever(fs, idx) == FALSE

\* if (files.length === 1) return;
RemoveRefused(fs, idx) == Len(fs) = 1

\* a removeFile that leaves the active index alone
ActiveAfterRemoveKept(idx) == activeFileIdx

\* setActiveFileIdx(0) of removeFile
ActiveAfterRemove(idx) == 0

\* function removeFile(idx), from the x of an explorer row or of a tab
removeFile(idx) ==
    /\ Unified
    /\ idx \in 0..(Len(files) - 1)
    /\ IF RemoveRefused(files, idx)
       THEN UNCHANGED <<files, activeFileIdx, storage, crashed, surface, timers,
                        sinceChange, fires, assigns, burst>>
       ELSE CommitU(RemoveAt(files, idx), ActiveAfterRemove(idx), TRUE)
    /\ UserOp("remove", At(files, idx).type, idx)
    /\ UNCHANGED <<variant, pyVars, storageFull, exported, uploads, perkindVars>>

\* function renameFile(idx, newName), from a tab's name field
renameFile(idx, newName) ==
    /\ Unified
    /\ idx \in 0..(Len(files) - 1)
    /\ newName /= At(files, idx).name
    /\ CommitU(Renamed(files, idx, newName), activeFileIdx, TRUE)
    /\ UserOp("rename", At(files, idx).type, idx)
    /\ UNCHANGED <<variant, pyVars, storageFull, exported, uploads, perkindVars>>

\* MonacoEditor onChange={code => setFiles(files.map((f, idx) => idx === activeFileIdx ? {...f, code} : f))}
editCode(code) ==
    /\ Unified
    /\ code /= At(files, activeFileIdx).code
    /\ CommitU(Recoded(files, activeFileIdx, code), activeFileIdx, TRUE)
    /\ UserOp("edit", At(files, activeFileIdx).type, activeFileIdx)
    /\ UNCHANGED <<variant, pyVars, storageFull, exported, uploads, perkindVars>>

\* onClick={() => setActiveFileIdx(idx)} of an explorer row or a tab
selectFile(idx) ==
    /\ Unified
    /\ idx \in 0..(Len(files) - 1)
    /\ idx /= activeFileIdx
    /\ CommitU(files, idx, FALSE)
    /\ UserOp("select", At(files, idx).type, idx)
    /\ UNCHANGED <<variant, pyVars, storageFull, exported, uploads, perkindVars>>

\* handleZipUpload(file) up to its first await: JSZip.loadAsync(file) is started
startUpload(bundle) ==
    /\ Unified
    /\ uploads' = Append(uploads, bundle)
    /\ UserOp("upload", "", 0)
    /\ UNCHANGED <<variant, pyVars, storageFull, exported, files, activeFileIdx, storage, crashed, perkindVars,
                   surface, timers, sinceChange, fires, assigns, burst>>

\* the text after the last dot: relativePath.split('.').pop()
RECURSIVE LastPart(_)
LastPart(name) ==
    IF \E i \in 1..Len(name) : name[i] = DOT
    THEN LastPart(Tail(name))
    ELSE name

\* let ext = relativePath.split('.').pop().toLowerCase();
\* let type = ["html","css","js","py","md"].includes(ext) ? ext : "txt";
TypeOfEntry(name) ==
    LET part == LastPart(name)
        ext == IF Len(part) = 1 THEN ToLowerCase(part[1]) ELSE ""
    IN  IF ext \in {"html", "css", "js", "py", "md"} THEN ext ELSE "txt"

FileOfEntry(e) == [name |-> e.name, type |-> TypeOfEntry(e.name), code |-> e.text]

\* an import that makes a file of every entry, directories too
ImportedFilesWithDirs(bundle) ==
    [i \in 1..Len(bundle.entries) |-> FileOfEntry(bundle.entries[i])]

\* zip.forEach(... if (!zipEntry.dir) filePromises.push(...)); await Promise.all(filePromises)
ImportedFiles(bundle) ==
    LET kept == SelectSeq(bundle.entries, LAMBDA e : ~e.dir)
    IN  [i \in 1..Len(kept) |-> FileOfEntry(kept[i])]

\* an import that takes whatever list it built
ImportAcceptedAlways(newFiles) == TRUE

\* if (newFiles.length > 0) { setFiles(newFiles); setActiveFileIdx(0) } else alert(...)
ImportAccepted(newFiles) == Len(newFiles) > 0

\* handleZipUpload after its awaits (a continuation: no user operation); the kind
\* recorded in `last` tells how it ended: "failed" is the catch branch's
\* alert("Failed to load ZIP: " + err), "empty" is alert("No valid files found in the ZIP!")
finishUpload ==
    /\ Unified
    /\ uploads /= <<>>
    /\ uploads' = Tail(uploads)
    /\ LET bundle == Head(uploads)
           newFiles == ImportedFiles(bundle)
       IN  IF ~bundle.ok
           THEN /\ last' = Op("import", "failed", 0)
                /\ UNCHANGED <<files, activeFileIdx, storage, crashed, surface, timers,
                               sinceChange, fires, assigns, burst>>
           ELSE IF ImportAccepted(newFiles)
           THEN /\ last' = Op("import", "done", 0)
                /\ CommitU(newFiles, 0, TRUE)
           ELSE /\ last' = Op("import", "empty", 0)
                /\ UNCHANGED <<files, activeFileIdx, storage, crashed, surface, timers,
                               sinceChange, fires, assigns, burst>>
    /\ UNCHANGED <<variant, pyVars, storageFull, exported, perkindVars, ops>>

\* an archive that puts each new entry in front of the others
ZipFileInFront(zip, name, data) ==
    <<[name |-> name, dir |-> FALSE, text |-> data]>> \o zip

\* zip.file(name, data): the archive keeps its entries under their names, so a
\* second entry with a name already present takes the place of the first
ZipFile(zip, name, data) ==
    IF \E i \in 1..Len(zip) : zip[i].name = name
    THEN [i \in 1..Len(zip) |->
            IF zip[i].name = name THEN [name |-> name, dir |-> FALSE, text |-> data] ELSE zip[i]]
    ELSE Append(zip, [name |-> name, dir |-> FALSE, text |-> data])

\* files.forEach(f => { zip.file(f.name, f.code) }) on a new JSZip()
RECURSIVE ZipOf(_, _)
ZipOf(zip, fs) ==
    IF fs = <<>> THEN zip
    ELSE ZipOf(ZipFile(zip, Head(fs).name, Head(fs).code), Tail(fs))

\* the archive the user has on disk after a download, to offer for import
Downloaded == IF exported.ok THEN {exported} ELSE {}

\* async function downloadZip(): the archive is filled before the first await
downloadZip ==
    /\ Unified
    /\ exported' = [ok |-> TRUE, entries |-> ZipOf(<<>>, files)]
    /\ UserOp("export", "", 0)
    /\ UNCHANGED <<variant, pyVars, storageFull, files, activeFileIdx, storage, uploads, crashed,
                   perkindVars, surface, timers, sinceChange, fires, assigns, burst>>

(* The Python runner.  A click on Run is call number py.started; py.runs[r] tells   *)
(* at which await call r is suspended                                              *)

\* a fresh page: no loader script appended, window.loadPyodide undefined, no call
\* of it made, pyodideRef.current null (0), no run started
PyIdle == [scripts |-> 0, loader |-> FALSE, inits |-> 0, ref |-> 0, started |-> 0, runs |-> <<>>]

\* useState("")
NoOutput == [run |-> 0, kind |-> "none"]

\* loadPyodide() from the point where the loader is known to be there:
\* if (!pyodideRef.current) { pyodideRef.current = await window.loadPyodide(...) }
\* return pyodideRef.current, after which runPython awaits pyodide.runPythonAsync(code)
AfterLoader(p, r) ==
    IF p.ref = 0
    THEN [p EXCEPT !.inits = @ + 1, !.runs[r] = "init"]
    ELSE [p EXCEPT !.runs[r] = "exec"]

\* const runPython = async () => { setPyOutput("Running..."); ... await loadPyodide() ...
\* up to its first await: if (!window.loadPyodide) a script element is appended and
\* its onload awaited
runPython ==
    /\ Unified
    /\ At(files, activeFileIdx).type = "py"
    /\ LET r == py.started + 1
           p == [py EXCEPT !.started = r, !.runs = Append(@, "start")]
       IN  /\ py' = IF ~p.loader
                     THEN [p EXCEPT !.scripts = @ + 1, !.runs[r] = "script"]
                     ELSE AfterLoader(p, r)
           /\ pyOutput' = [run |-> r, kind |-> "running"]
    /\ UserOp("run", "py", activeFileIdx)
    /\ UNCHANGED <<variant, storageFull, exported, unifiedVars, perkindVars, surface, timers,
                   sinceChange, fires, assigns, burst>>

\* script.onload = resolve: the loader script of call r has run (window.loadPyodide
\* is defined from now on) and call r goes on
scriptLoaded(r) ==
    /\ Unified
    /\ r \in 1..Len(py.runs) /\ py.runs[r] = "script"
    /\ py' = AfterLoader([py EXCEPT !.loader = TRUE], r)
    /\ last' = Op("pyload", "", r)
    /\ UNCHANGED <<variant, storageFull, exported, pyOutput, unifiedVars, perkindVars, surface,
                   timers, sinceChange, fires, assigns, burst, ops>>

\* the window.loadPyodide(...) call r made resolves: pyodideRef.current is its interpreter
interpreterReady(r) ==
    /\ Unified
    /\ r \in 1..Len(py.runs) /\ py.runs[r] = "init"
    /\ py' = [py EXCEPT !.ref = r, !.runs[r] = "exec"]
    /\ last' = Op("pyinit", "", r)
    /\ UNCHANGED <<variant, storageFull, exported, pyOutput, unifiedVars, perkindVars, surface,
                   timers, sinceChange, fires, assigns, burst, ops>>

\* pyodide.runPythonAsync(file.code) of call r settles: setPyOutput(String(result)) or,
\* in the catch branch, setPyOutput(String(e))
runSettled(r, kind) ==
    /\ Unified
    /\ r \in 1..Len(py.runs) /\ py.runs[r] = "exec"
    /\ py' = [py EXCEPT !.runs[r] = "done"]
    /\ pyOutput' = [run |-> r, kind |-> kind]
    /\ last' = Op("pydone", kind, r)
    /\ UNCHANGED <<variant, storageFull, exported, unifiedVars, perkindVars, surface, timers,
                   sinceChange, fires, assigns, burst, ops>>

\* the page is loaded again: every piece of component state is rebuilt from storage
reload ==
    /\ variant = "unified"
    /\ MountU(storage)
    /\ py' = PyIdle
    /\ pyOutput' = NoOutput
    /\ UserOp("reload", "", 0)
    /\ UNCHANGED <<variant, storageFull, exported, perkindVars>>

----------------------------------------------------------------------------
(* Per-kind variant: the view *)

PerKind == variant = "perkind" /\ ~crashed

\* which iframe element the render mounts: the one of the row branch
\* (layout === "row" && fullScreen !== "preview" && fullScreen !== "editors"),
\* the one of the column branch ({fullScreen !== "editors" && ...}), or none
IframeSlot(lay, fsn) ==
    IF lay = "row" /\ fsn = "none" THEN "row"
    ELSE IF fsn /= "editors" THEN "column"
    ELSE "none"

\* the row branch is the only one that renders the tab bars
TabsShown == layout = "row" /\ fullScreen = "none"

\* the editors are rendered in the row branch and, in the other, unless the preview is full screen
EditorsShown == fullScreen /= "preview"

\* One render of the per-kind App and the effects it runs.
\* srcSet: htmlFiles, jsFiles or css was set (the preview effect re-runs).
CommitK(nextHtml, ah, nextJs, aj, c, lay, fsn, srcSet) ==
  \E hs \in {nextHtml}, js \in {nextJs} :
    /\ htmlFiles' = hs
    /\ activeHtml' = ah
    /\ jsFiles' = js
    /\ activeJs' = aj
    /\ css' = c
    /\ layout' = lay
    /\ fullScreen' = fsn
    /\ surface' = NextSurface(IframeSlot(lay, fsn) /= "none",
                              IframeSlot(lay, fsn) = IframeSlot(layout, fullScreen))
    /\ IF srcSet
       THEN timers' = ScheduleRender(timers, buildSrcDocK(hs, c, js)) /\ ChangeSeen
       ELSE UNCHANGED timers /\ NoChangeSeen

PerKindIdle ==
    /\ files = <<>> /\ activeFileIdx = 0 /\ storage = EmptyStorage
    /\ storageFull = {} /\ exported = NoArchive
    /\ py = PyIdle /\ pyOutput = NoOutput
    /\ uploads = <<>> /\ crashed = FALSE

----------------------------------------------------------------------------
(* Per-kind variant: the handlers *)

\* const addHtmlFile = () => setHtmlFiles((old) => [...old, defaultHtmlFile(old.length+1)]);
addHtmlFile ==
    /\ PerKind /\ TabsShown
    /\ CommitK(Append(htmlFiles, defaultHtmlFile(Len(htmlFiles) + 1)), activeHtml,
               jsFiles, activeJs, css, layout, fullScreen, TRUE)
    /\ UserOp("add", "html", Len(htmlFiles))
    /\ UNCHANGED <<variant, pyVars, storageFull, exported, unifiedVars>>

\* const addJsFile = () => setJsFiles((old) => [...old, defaultJsFile(old.length+1)]);
addJsFile ==
    /\ PerKind /\ TabsShown
    /\ CommitK(htmlFiles, activeHtml, Append(jsFiles, defaultJsFile(Len(jsFiles) + 1)),
               activeJs, css, layout, fullScreen, TRUE)
    /\ UserOp("add", "js", Len(jsFiles))
    /\ UNCHANGED <<variant, pyVars, storageFull, exported, unifiedVars>>

\* files => files.length === 1 ? files : files.filter((_, idx) => idx !== i)
removeTab(fs, i) == IF Len(fs) = 1 THEN fs ELSE RemoveAt(fs, i)

\* {htmlFiles.length > 1 && <span onClick={e => {...; removeHtmlFile(i); setActiveHtml(0);}}>x</span>}
closeHtmlTab(i) ==
    /\ PerKind /\ TabsShown
    /\ Len(htmlFiles) > 1
    /\ i \in 0..(Len(htmlFiles) - 1)
    /\ CommitK(removeTab(htmlFiles, i), 0, jsFiles, activeJs, css, layout, fullScreen, TRUE)
    /\ UserOp("remove", "html", i)
    /\ UNCHANGED <<variant, pyVars, storageFull, exported, unifiedVars>>

\* {jsFiles.length > 1 && <span onClick={e => {...; removeJsFile(i); setActiveJs(0);}}>x</span>}
closeJsTab(i) ==
    /\ PerKind /\ TabsShown
    /\ Len(jsFiles) > 1
    /\ i \in 0..(Len(jsFiles) - 1)
    /\ CommitK(htmlFiles, activeHtml, removeTab(jsFiles, i), 0, css, layout, fullScreen, TRUE)
    /\ UserOp("remove", "js", i)
    /\ UNCHANGED <<variant, pyVars, storageFull, exported, unifiedVars>>

\* const renameHtmlFile = (i, newName) => setHtmlFiles(files => files.map(...))
renameHtmlFile(i, newName) ==
    /\ PerKind /\ TabsShown
    /\ i \in 0..(Len(htmlFiles) - 1)
    /\ newName /= At(htmlFiles, i).name
    /\ CommitK(Renamed(htmlFiles, i, newName), activeHtml,
               jsFiles, activeJs, css, layout, fullScreen, TRUE)
    /\ UserOp("rename", "html", i)
    /\ UNCHANGED <<variant, pyVars, storageFull, exported, unifiedVars>>

\* const renameJsFile = (i, newName) => setJsFiles(files => files.map(...))
renameJsFile(i, newName) ==
    /\ PerKind /\ TabsShown
    /\ i \in 0..(Len(jsFiles) - 1)
    /\ newName /= At(jsFiles, i).name
    /\ CommitK(htmlFiles, activeHtml,
               Renamed(jsFiles, i, newName), activeJs,
               css, layout, fullScreen, TRUE)
    /\ UserOp("rename", "js", i)
    /\ UNCHANGED <<variant, pyVars, storageFull, exported, unifiedVars>>

\* onClick={() => setActiveHtml(i)}
selectHtml(i) ==
    /\ PerKind /\ TabsShown
    /\ i \in 0..(Len(htmlFiles) - 1)
    /\ i /= activeHtml
    /\ CommitK(htmlFiles, i, jsFiles, activeJs, css, layout, fullScreen, FALSE)
    /\ UserOp("select", "html", i)
    /\ UNCHANGED <<variant, pyVars, storageFull, exported, unifiedVars>>

\* onClick={() => setActiveJs(i)}
selectJs(i) ==
    /\ PerKind /\ TabsShown
    /\ i \in 0..(Len(jsFiles) - 1)
    /\ i /= activeJs
    /\ CommitK(htmlFiles, activeHtml, jsFiles, i, css, layout, fullScreen, FALSE)
    /\ UserOp("select", "js", i)
    /\ UNCHANGED <<variant, pyVars, storageFull, exported, unifiedVars>>

\* onChange={code => setHtmlFiles(files => files.map((f, idx) => idx === activeHtml ? {...f, code} : f))}
editHtml(code) ==
    /\ PerKind /\ EditorsShown
    /\ code /= At(htmlFiles, activeHtml).code
    /\ CommitK(Recoded(htmlFiles, activeHtml, code), activeHtml,
               jsFiles, activeJs, css, layout, fullScreen, TRUE)
    /\ UserOp("edit", "html", activeHtml)
    /\ UNCHANGED <<variant, pyVars, storageFull, exported, unifiedVars>>

\* onChange={code => setJsFiles(files => files.map((f, idx) => idx === activeJs ? {...f, code} : f))}
editJs(code) ==
    /\ PerKind /\ EditorsShown
    /\ code /= At(jsFiles, activeJs).code
    /\ CommitK(htmlFiles, activeHtml,
               Recoded(jsFiles, activeJs, code), activeJs,
               css, layout, fullScreen, TRUE)
    /\ UserOp("edit", "js", activeJs)
    /\ UNCHANGED <<variant, pyVars, storageFull, exported, unifiedVars>>

\* onChange={setCss}
editCss(code) ==
    /\ PerKind /\ EditorsShown
    /\ code /= css
    /\ CommitK(htmlFiles, activeHtml, jsFiles, activeJs, code, layout, fullScreen, TRUE)
    /\ UserOp("edit", "css", 0)
    /\ UNCHANGED <<variant, pyVars, storageFull, exported, unifiedVars>>

\* onClick={() => setLayout(layout === "row" ? "column" : "row")}
toggleLayout ==
    /\ PerKind
    /\ CommitK(htmlFiles, activeHtml, jsFiles, activeJs, css,
               IF layout = "row" THEN "column" ELSE "row", fullScreen, FALSE)
    /\ UserOp("layout", "", 0)
    /\ UNCHANGED <<variant, pyVars, storageFull, exported, unifiedVars>>

\* onClick={() => setFullScreen(fullScreen === which ? null : which)}, which: "editors" | "preview"
toggleFullScreen(which) ==
    /\ PerKind
    /\ CommitK(htmlFiles, activeHtml, jsFiles, activeJs, css, layout,
               IF fullScreen = which THEN "none" ELSE which, FALSE)
    /\ UserOp("fullscreen", which, 0)
    /\ UNCHANGED <<variant, pyVars, storageFull, exported, unifiedVars>>

----------------------------------------------------------------------------
(* Time and the timer callback, both variants *)

\* the smallest time left on a pending timer (Delay when there is none)
NextExpiry ==
    IF timers = <<>> THEN Delay
    ELSE CHOOSE m \in {timers[i].left : i \in 1..Len(timers)} :
             \A i \in 1..Len(timers) : m <= timers[i].left

\* time passes: by at most Quantum, and not past the next timer's expiry
\* (the clock stops being followed once Delay has passed with no timer pending)
tick ==
    /\ timers /= <<>> \/ sinceChange < Delay
    /\ \A i \in 1..Len(timers) : timers[i].left > 0
    /\ LET d == Min(Quantum, NextExpiry) IN
        /\ timers' = [i \in 1..Len(timers) |-> [timers[i] EXCEPT !.left = @ - d]]
        /\ sinceChange' = Min(Delay, sinceChange + d)
    /\ last' = Op("tick", "", 0)
    /\ UNCHANGED <<variant, pyVars, storageFull, exported, unifiedVars, perkindVars, surface, fires, assigns, burst, ops>>

\* index of the first timer that is due
DueTimer == CHOOSE i \in 1..Len(timers) : timers[i].left = 0 /\ \A j \in 1..(i - 1) : timers[j].left > 0

\* () => { if (iframeRef.current) iframeRef.current.srcdoc = buildSrcDoc(); }
render ==
    /\ ~crashed
    /\ \E i \in 1..Len(timers) : timers[i].left = 0
    /\ timers' = RemoveAt(timers, DueTimer - 1)
    /\ fires' = Min(fires + 1, 2)
    /\ IF surface.mounted
       THEN /\ surface' = [surface EXCEPT !.srcdoc = timers[DueTimer].doc]
            /\ assigns' = Min(assigns + 1, 2)
       ELSE UNCHANGED <<surface, assigns>>
    /\ last' = Op("render", "", 0)
    /\ UNCHANGED <<variant, pyVars, storageFull, exported, unifiedVars, perkindVars, sinceChange, burst, ops>>

----------------------------------------------------------------------------
(* The state machine *)

\* the unified App after its first render with local storage holding st (as MountU)
InitUnifiedWith(st) ==
    /\ variant = "unified"
    /\ files = loadFiles(st)
    /\ activeFileIdx = loadActive(st)
    /\ crashed = RenderThrows(files, activeFileIdx)
    /\ storage = IF crashed THEN st ELSE saveActive(saveFiles(st, files), activeFileIdx)
    /\ storageFull = {}
    /\ exported = NoArchive
    /\ py = PyIdle
    /\ pyOutput = NoOutput
    /\ uploads = <<>>
    /\ UnifiedIdle
    /\ surface = IF ~crashed /\ IframeShown(files, activeFileIdx) THEN FreshSurface ELSE NoSurface
    /\ timers = IF crashed THEN <<>> ELSE ScheduleRender(<<>>, buildSrcDoc(files))

InitUnified == \E st \in StoredSessions : InitUnifiedWith(st)

InitPerKind ==
    /\ variant = "perkind"
    /\ htmlFiles = <<defaultHtmlFile(1)>>
    /\ activeHtml = 0
    /\ jsFiles = <<defaultJsFile(1)>>
    /\ activeJs = 0
    /\ css = DefaultCss
    /\ layout = "row"
    /\ fullScreen = "none"
    /\ PerKindIdle
    /\ surface = FreshSurface
    /\ timers = ScheduleRender(<<>>, buildSrcDocK(htmlFiles, css, jsFiles))

InitHistory ==
    /\ sinceChange = 0
    /\ fires = 0
    /\ assigns = 0
    /\ burst = 0
    /\ last = Op("load", "", 0)
    /\ ops = 0

Init ==
    /\ InitUnified \/ InitPerKind
    /\ InitHistory

Next ==
    \/ \E type \in AddTypes : addFile(type)
    \/ \E idx \in 0..(Len(files) - 1) : removeFile(idx)
    \/ \E idx \in 0..(Len(files) - 1), n \in NewNames : renameFile(idx, n)
    \/ \E code \in EditTexts : editCode(code)
    \/ \E idx \in 0..(Len(files) - 1) : selectFile(idx)
    \/ \E b \in Bundles \cup Downloaded : startUpload(b)
    \/ finishUpload
    \/ downloadZip
    \/ reload
    \/ addHtmlFile
    \/ addJsFile
    \/ \E i \in 0..(Len(htmlFiles) - 1) : closeHtmlTab(i)
    \/ \E i \in 0..(Len(jsFiles) - 1) : closeJsTab(i)
    \/ \E i \in 0..(Len(htmlFiles) - 1), n \in NewNames : renameHtmlFile(i, n)
    \/ \E i \in 0..(Len(jsFiles) - 1), n \in NewNames : renameJsFile(i, n)
    \/ \E i \in 0..(Len(htmlFiles) - 1) : selectHtml(i)
    \/ \E i \in 0..(Len(jsFiles) - 1) : selectJs(i)
    \/ \E code \in EditTexts : editHtml(code)
    \/ \E code \in EditTexts : editJs(code)
    \/ \E code \in EditTexts : editCss(code)
    \/ toggleLayout
    \/ \E which \in {"editors", "preview"} : toggleFullScreen(which)
    \/ tick
    \/ render

Spec == Init /\ [][Next]_vars

(* The same program with its Python runner in use.  The runner shares no state    *)
(* with the files and the preview but the active file, so Spec leaves it idle.    *)

InitPy ==
    /\ (\E st \in StoredSessions \cup PythonSessions : InitUnifiedWith(st)) \/ InitPerKind
    /\ InitHistory

NextPy ==
    \/ Next
    \/ runPython
    \/ \E r \in 1..Len(py.runs) : scriptLoaded(r)
    \/ \E r \in 1..Len(py.runs) : interpreterReady(r)
    \/ \E r \in 1..Len(py.runs), kind \in {"result", "error"} : runSettled(r, kind)

SpecPy == InitPy /\ [][NextPy]_vars

(* The same program in a browser whose local storage is not under its control *)

\* the writes that fail once the quota is used up: those that make the stored value
\* longer (the file list), or every write
FailingWrites == { {"vibe_files"}, {"vibe_files", "vibe_active"} }

\* other pages of the origin use up the storage quota: from now on setItem throws
storageFills ==
    /\ variant = "unified"
    /\ storageFull = {}
    /\ \E keys \in FailingWrites : storageFull' = keys
    /\ last' = Op("quota", "", 0)
    /\ UNCHANGED <<variant, pyVars, exported, unifiedVars, perkindVars, surface, timers,
                   sinceChange, fires, assigns, burst, ops>>

\* <iframe sandbox="allow-scripts allow-same-origin" ...>
Sandbox == {"allow-scripts", "allow-same-origin"}

\* scripts of the frame run, and the frame (a srcdoc document) keeps the origin of the
\* page that embeds it: its window.localStorage is the host's
FrameSharesStorage == "allow-scripts" \in Sandbox /\ "allow-same-origin" \in Sandbox

\* the script of the document on display calls localStorage.clear()
previewScript ==
    /\ variant = "unified"
    /\ surface.mounted /\ surface.srcdoc /= <<>>
    /\ ScriptOutcome(surface.srcdoc) /= "syntax"
    /\ \E i \in 1..Len(ScriptText(surface.srcdoc)) : ScriptText(surface.srcdoc)[i] = "clear()"
    /\ FrameSharesStorage
    /\ storage /= EmptyStorage
    /\ storage' = EmptyStorage
    /\ last' = Op("script", "", 0)
    /\ UNCHANGED <<variant, pyVars, storageFull, exported, files, activeFileIdx, uploads, crashed,
                   perkindVars, surface, timers, sinceChange, fires, assigns, burst, ops>>

InitEnv ==
    /\ \/ \E st \in StoredSessions \cup DamagedSessions \cup MeddlingSessions : InitUnifiedWith(st)
       \/ InitPerKind
    /\ InitHistory

NextEnv ==
    \/ Next
    \/ storageFills
    \/ previewScript

SpecEnv == InitEnv /\ [][NextEnv]_vars

----------------------------------------------------------------------------
(* Properties *)

\* compose of the sources the component holds now
CurrentDoc ==
    IF variant = "unified" THEN buildSrcDoc(files) ELSE buildSrcDocK(htmlFiles, css, jsFiles)

\* Delay has passed since the last change and no timer is pending
Quiet == sinceChange = Delay /\ timers = <<>>

\* the step is the user operation (or, for an import, the continuation) named op
StepOf(op) == last'.op = op /\ (ops' = ops + 1 \/ op = "import")

\* the step is a run of the preview timer's callback
RenderStep == last'.op = "render"

\* every file the component holds is of a kind the preview shows
AllPreviewed ==
    variant = "unified" => \A i \in 1..Len(files) : files[i].type \in Previewed

\* C1 as stated: after every burst of changes to the previewed sources, each less
\* than Delay after the one before, the surface has been assigned exactly once,
\* Delay after the last change, with compose of the final state, and nothing is
\* assigned while the burst lasts.
C1_AssignedOncePerBurst ==
    (burst > 0 /\ AllPreviewed) =>
        /\ sinceChange < Delay => assigns = 0
        /\ Quiet => assigns = 1 /\ surface.srcdoc = CurrentDoc

\* C1 amended: after every burst of updates of the lists the preview effect depends
\* on (add, remove, rename, edit of a file of any kind, import), exactly one timer
\* callback runs, Delay after the last update, unless a render error unmounted the
\* view, which cancels the timer; the callback assigns compose of the state after the
\* last update, once, if an iframe is mounted at that moment, and nothing otherwise;
\* nothing is assigned between the first update of the burst and that callback.
C1_OneCallbackPerBurst ==
    /\ [](/\ sinceChange < Delay => fires = 0 /\ assigns = 0
          /\ fires <= 1 /\ assigns <= fires
          /\ Quiet => fires = (IF crashed THEN 0 ELSE 1))
    /\ [][RenderStep =>
            /\ sinceChange = Delay
            /\ IF surface.mounted
               THEN surface'.srcdoc = CurrentDoc /\ assigns' = 1
               ELSE surface' = surface /\ assigns' = 0]_vars

\* a burst of two changes was followed by Delay of quiet and by its one assignment
C1_Witness ==
    /\ burst = 2 /\ Quiet /\ ~crashed
    /\ fires = 1 /\ assigns = 1
    /\ surface.mounted /\ surface.srcdoc = CurrentDoc

\* C2 as stated: whenever the surface is displayed and Delay has passed since the
\* last change, the surface's document is compose of the current sources, also after
\* the surface was hidden and shown again.
C2_PreviewInSync ==
    (surface.mounted /\ Quiet) => surface.srcdoc = CurrentDoc

\* C3: the active index is a valid index into the list it selects from
\* (activeFileIdx into files; activeHtml into htmlFiles and activeJs into jsFiles).
C3_ActiveIndexValid ==
    /\ variant = "unified" => activeFileIdx \in 0..(Len(files) - 1)
    /\ variant = "perkind" => /\ activeHtml \in 0..(Len(htmlFiles) - 1)
                              /\ activeJs \in 0..(Len(jsFiles) - 1)

\* the last file of the list was removed while a later index than 0 could be active
C3_Witness ==
    /\ variant = "unified" /\ ~crashed
    /\ last.op = "remove" /\ last.idx = Len(files) /\ Len(files) >= 2
    /\ activeFileIdx = 0

\* the number of files of a kind
CountOf(fs, type) == Cardinality({i \in 1..Len(fs) : fs[i].type = type})

\* s without its element at the 0-based index idx, stated element by element
Without(s, t, idx) ==
    /\ Len(t) = Len(s) - 1
    /\ \A j \in 1..Len(t) : t[j] = (IF j <= idx THEN s[j] ELSE s[j + 1])

\* C4 as stated: a remove that targets the only remaining file of its kind changes
\* nothing in the FileSet, whatever the number of files of other kinds.
C4_SoleOfKindKept ==
    [][(/\ StepOf("remove")
        /\ \/ variant = "unified" /\ CountOf(files, last'.kind) = 1
           \/ variant = "perkind" /\ last'.kind = "html" /\ Len(htmlFiles) = 1
           \/ variant = "perkind" /\ last'.kind = "js" /\ Len(jsFiles) = 1)
       => /\ files' = files
          /\ htmlFiles' = htmlFiles
          /\ jsFiles' = jsFiles]_vars

\* C5 as stated: the number of files of a kind never returns to zero once it has
\* been positive.
C5_KindNeverEmptied ==
    [][/\ \A i \in 1..Len(files) : CountOf(files', files[i].type) > 0
       /\ Len(htmlFiles) > 0 => Len(htmlFiles') > 0
       /\ Len(jsFiles) > 0 => Len(jsFiles') > 0]_vars

\* C6 as stated: after an add for a kind, the kind has one file more, the files
\* that existed are unchanged, and the active file is the new file.
C6_AddedFileActive ==
    [][StepOf("add") =>
        /\ variant = "unified" =>
            /\ CountOf(files', last'.kind) = CountOf(files, last'.kind) + 1
            /\ Len(files') = Len(files) + 1
            /\ SubSeq(files', 1, Len(files)) = files
            /\ activeFileIdx' = Len(files') - 1
        /\ (variant = "perkind" /\ last'.kind = "html") =>
            /\ Len(htmlFiles') = Len(htmlFiles) + 1
            /\ SubSeq(htmlFiles', 1, Len(htmlFiles)) = htmlFiles
            /\ jsFiles' = jsFiles /\ css' = css
            /\ activeHtml' = Len(htmlFiles') - 1
        /\ (variant = "perkind" /\ last'.kind = "js") =>
            /\ Len(jsFiles') = Len(jsFiles) + 1
            /\ SubSeq(jsFiles', 1, Len(jsFiles)) = jsFiles
            /\ htmlFiles' = htmlFiles /\ css' = css
            /\ activeJs' = Len(jsFiles') - 1]_vars

\* C7 as stated: a permitted remove on index i (the file at i is not the only one
\* of its kind) removes exactly the file at i, leaves the other files and their order
\* unchanged, and resets to 0 the active index of the removed file's kind only: the
\* selection of a file of another kind is not changed.
C7_ResetsRemovedKindOnly ==
    [][StepOf("remove") =>
        /\ (variant = "unified" /\ CountOf(files, last'.kind) > 1) =>
            /\ Without(files, files', last'.idx)
            /\ IF At(files, activeFileIdx).type = last'.kind
               THEN At(files', activeFileIdx').type = last'.kind
                    /\ \A j \in 0..(activeFileIdx' - 1) : At(files', j).type /= last'.kind
               ELSE activeFileIdx' = activeFileIdx - (IF last'.idx < activeFileIdx THEN 1 ELSE 0)
        /\ (variant = "perkind" /\ last'.kind = "html" /\ Len(htmlFiles) > 1) =>
            /\ Without(htmlFiles, htmlFiles', last'.idx)
            /\ jsFiles' = jsFiles /\ activeHtml' = 0 /\ activeJs' = activeJs
        /\ (variant = "perkind" /\ last'.kind = "js" /\ Len(jsFiles) > 1) =>
            /\ Without(jsFiles, jsFiles', last'.idx)
            /\ htmlFiles' = htmlFiles /\ activeJs' = 0 /\ activeHtml' = activeHtml]_vars

\* C7 amended: when the code performs the removal (unified variant: the list holds
\* more than one file, of whatever kinds; per-kind variant: the list of the kind holds
\* more than one file), a remove on index i removes exactly the file at i and leaves
\* the other files and their order unchanged; the per-kind variant resets to 0 the
\* active index of the removed file's kind only, the unified variant resets its single
\* active index to 0, so that the first file of the list becomes the active one
\* whatever file was selected before.
C7_RemoveFrame ==
    [][StepOf("remove") =>
        /\ (variant = "unified" /\ Len(files) > 1) =>
            /\ Without(files, files', last'.idx)
            /\ activeFileIdx' = 0
        /\ (variant = "perkind" /\ last'.kind = "html" /\ Len(htmlFiles) > 1) =>
            /\ Without(htmlFiles, htmlFiles', last'.idx)
            /\ jsFiles' = jsFiles /\ activeHtml' = 0 /\ activeJs' = activeJs
        /\ (variant = "perkind" /\ last'.kind = "js" /\ Len(jsFiles) > 1) =>
            /\ Without(jsFiles, jsFiles', last'.idx)
            /\ htmlFiles' = htmlFiles /\ activeJs' = 0 /\ activeHtml' = activeHtml]_vars

\* the second of four files was removed while the third was selected
C7_Witness ==
    /\ variant = "unified" /\ ~crashed
    /\ last.op = "remove" /\ last.idx = 1
    /\ Len(files) = 3 /\ activeFileIdx = 0
    /\ storage.vibe_active = "0"

\* the contents of the files of a kind, in the order of the list
CodesOfKind(fs, type) ==
    LET at == {i \in 1..Len(fs) : fs[i].type = type}
        nth(k) == CHOOSE i \in at : Cardinality({j \in at : j < i}) = k - 1
    IN  [k \in 1..Cardinality(at) |-> fs[nth(k)].code]

\* the contents of all the files of a list, in its order
CodesOf(fs) == [k \in 1..Len(fs) |-> fs[k].code]

RECURSIVE IsJoined(_, _)
\* txt is the texts of list one after the other with one newline between neighbours
IsJoined(txt, list) ==
    IF list = <<>> THEN txt = <<>>
    ELSE IF Len(list) = 1 THEN txt = list[1]
    ELSE /\ Len(txt) > Len(list[1])
         /\ SubSeq(txt, 1, Len(list[1])) = list[1]
         /\ txt[Len(list[1]) + 1] = NL
         /\ IsJoined(SubSeq(txt, Len(list[1]) + 2, Len(txt)), Tail(list))

\* where the token tok stands in doc
Places(doc, tok) == {i \in 1..Len(doc) : doc[i] = tok}

\* doc is one style block holding style, then a body holding markup followed by one
\* guarded script block holding script
IsPreviewOf(doc, style, markup, script) ==
    /\ Places(doc, DocHead) = {1}
    /\ Places(doc, DocTail) = {Len(doc)}
    /\ Cardinality(Places(doc, DocBody)) = 1
    /\ Cardinality(Places(doc, DocScript)) = 1
    /\ \E b \in Places(doc, DocBody), c \in Places(doc, DocScript) :
        /\ b < c
        /\ IsJoined(SubSeq(doc, 2, b - 1), style)
        /\ IsJoined(SubSeq(doc, b + 1, c - 1), markup)
        /\ IsJoined(SubSeq(doc, c + 1, Len(doc) - 1), script)

\* an add, remove, rename or edit keeps the files it does not remove in their order
\* and of their kind, and puts a new file last
OrderKept(fs, gs) ==
    /\ StepOf("add") => SubSeq(gs, 1, Len(fs)) = fs
    /\ StepOf("remove") => gs = fs \/ Without(fs, gs, last'.idx)
    /\ (StepOf("rename") \/ StepOf("edit")) =>
        /\ Len(gs) = Len(fs)
        /\ \A i \in 1..Len(fs) : gs[i] = fs[i] \/ i = last'.idx + 1

\* C8: compose yields exactly one style block holding the contents of the style
\* files in list order separated by newlines, a body holding the contents of the
\* markup files in list order, and exactly one guarded script block holding the
\* contents of the script files in list order; files of other kinds contribute
\* nothing; add, remove, rename and edit keep the files in insertion order.
C8_ComposeInOrder ==
    /\ [](IF variant = "unified"
          THEN IsPreviewOf(buildSrcDoc(files), CodesOfKind(files, "css"),
                           CodesOfKind(files, "html"), CodesOfKind(files, "js"))
          ELSE IsPreviewOf(buildSrcDocK(htmlFiles, css, jsFiles), <<css>>,
                           CodesOf(htmlFiles), CodesOf(jsFiles)))
    /\ [][/\ OrderKept(files, files')
          /\ last'.kind = "html" => OrderKept(htmlFiles, htmlFiles')
          /\ last'.kind = "js" => OrderKept(jsFiles, jsFiles')]_vars

\* the list holds two style files, no script file, and a file of a kind that is not
\* previewed
C8_Witness ==
    /\ variant = "unified" /\ ~crashed
    /\ CountOf(files, "css") = 2 /\ CountOf(files, "js") = 0 /\ CountOf(files, "py") = 1

\* C9: loading what save stored yields the same files (names, kinds, contents and
\* order) and, for every valid index, the same active index.
C9_RoundTrip ==
    variant = "unified" =>
        /\ loadFiles(saveFiles(EmptyStorage, files)) = files
        /\ \A idx \in 0..(Len(files) - 1) :
            loadActive(saveActive(EmptyStorage, idx)) = idx

\* the list differs from the default one, holds a content with a newline and quotes,
\* and an index other than 0 is active
C9_Witness ==
    /\ variant = "unified" /\ ~crashed
    /\ activeFileIdx > 0
    /\ \E i \in 1..Len(files) : files[i].code \in EditTexts
    /\ \E i \in 1..Len(files) : files[i].name \in NewNames /\ files[i].type = "css"

\* C10: a reload of the rendered view restores exactly the files and the active
\* index that were current before it.
C10_ReloadRestores ==
    [][(StepOf("reload") /\ ~crashed) =>
        /\ files' = files
        /\ activeFileIdx' = activeFileIdx
        /\ ~crashed']_vars

\* the page was reloaded with an edited file in the list and an index other than 0 active
C10_Witness ==
    /\ variant = "unified" /\ ~crashed
    /\ last.op = "reload"
    /\ activeFileIdx > 0
    /\ \E i \in 1..Len(files) : files[i].code \in EditTexts

----------------------------------------------------------------------------
(* Loading and saving in a browser whose storage misbehaves (SpecEnv) *)

\* the list a stored text stands for, when it stands for a list of at least one file
StoredFiles(st) ==
    LET r == JsonParse(st.vibe_files)
    IN  IF st.vibe_files /= <<>> /\ r.ok /\ Len(r.val) > 0 THEN r.val ELSE DEFAULT_FILES

\* the index a stored text stands for, when it is an index of fs
StoredActive(st, fs) ==
    LET n == StringToNumber(st.vibe_active)
    IN  IF st.vibe_active /= "" /\ n \in 0..(Len(fs) - 1) THEN n ELSE 0

\* C11: a page load never fails and yields a usable FileSet: the stored list when the
\* stored value is present and is a well-formed list of files, the default files in
\* every other case; a stored active index that is absent or not an index yields 0
C11_LoadFallsBack ==
    [][StepOf("reload") =>
        /\ ~crashed' \/ SetItemThrows("vibe_active")
        /\ files' = StoredFiles(storage)
        /\ activeFileIdx' = StoredActive(storage, files')]_vars

\* C12: a storage write that fails while saving the file list or the active index is
\* swallowed: a step taken while setItem throws leaves the App running (unless its
\* render itself throws) with the FileSet and index the step asked for
C12_WriteFailureSwallowed ==
    [][storageFull /= {} /\ ~crashed /\ ~RenderThrows(files', activeFileIdx') => ~crashed']_vars

----------------------------------------------------------------------------
(* Import and export *)

\* the file entries of an archive, in archive order
FileEntries(bundle) == SelectSeq(bundle.entries, LAMBDA e : ~e.dir)

\* the extension of an entry name, lower-cased: what follows its last dot; a name
\* without a dot has none
ExtensionOf(name) ==
    IF Len(name) >= 2 /\ name[Len(name) - 1] = DOT THEN ToLowerCase(name[Len(name)]) ELSE ""

\* the import is the step that just happened and it took the archive's files
Imported == last'.op = "import" /\ last'.kind = "done"

\* C13: the kind of every imported file is the one the table gives for the extension
\* of its entry name, case-insensitively, and text when the extension is not in the
\* table or the name has no extension; its name and content are the entry's
C13_KindByExtension ==
    [][Imported =>
        LET kept == FileEntries(Head(uploads)) IN
        \A i \in 1..Len(kept) :
            /\ i <= Len(files')
            /\ files'[i].name = kept[i].name
            /\ files'[i].code = kept[i].text
            /\ files'[i].type = (IF ExtensionOf(kept[i].name) \in Kinds
                                 THEN ExtensionOf(kept[i].name) ELSE "txt")]_vars

\* C14: an import of an archive with at least one file entry replaces the FileSet:
\* afterwards it holds exactly the archive's file entries, in archive order, whatever
\* it held before and whatever was done while the archive was being read; directory
\* entries are skipped and the active index is 0
C14_ImportReplaces ==
    [][Imported =>
        LET kept == FileEntries(Head(uploads)) IN
        /\ Len(files') = Len(kept)
        /\ \A i \in 1..Len(kept) :
                files'[i].name = kept[i].name /\ files'[i].code = kept[i].text
        /\ activeFileIdx' = 0]_vars

\* an archive with a directory and three files was imported after another operation
C14_Witness ==
    /\ last = Op("import", "done", 0)
    /\ ops = 2
    /\ ~crashed
    /\ Len(files) = 3
    /\ files[1].name = <<"c", DOT, "PY">>
    /\ activeFileIdx = 0

\* C15: an import that fails leaves the state as it was: when the archive cannot be
\* read or holds no file entry, the user is told so and the FileSet, the active index
\* and what is stored are what they were when the import ended
C15_FailedImportKeepsState ==
    [][last'.op = "import" /\ (~Head(uploads).ok \/ FileEntries(Head(uploads)) = <<>>) =>
        /\ last'.kind \in {"failed", "empty"}
        /\ files' = files
        /\ activeFileIdx' = activeFileIdx
        /\ storage' = storage
        /\ crashed' = crashed]_vars

\* an archive holding only a directory was refused after another operation
C15_Witness ==
    /\ last = Op("import", "empty", 0)
    /\ ops = 2
    /\ ~crashed
    /\ Len(files) > 0

\* C16: the exported archive holds one entry per file of the FileSet, also when two
\* files have the same name: entry i has the name and the content of file i
C16_ExportHoldsEveryFile ==
    [][StepOf("export") =>
        /\ Len(exported'.entries) = Len(files)
        /\ \A i \in 1..Len(files) :
                /\ i <= Len(exported'.entries)
                /\ exported'.entries[i].name = files[i].name
                /\ exported'.entries[i].text = files[i].code]_vars

\* C17: in every reachable state every file's kind is one of the kinds LANGUAGES
\* describes, so the tab bar and the editor find a descriptor for every file and the
\* host page is never crashed
C17_KindsDescribed ==
    variant = "unified" =>
        /\ \A i \in 1..Len(files) : files[i].type \in Kinds
        /\ ~crashed

----------------------------------------------------------------------------
(* The previewed script *)

\* C18: whenever the script of the document on display raises an error, at run time
\* or when the script block is parsed, the guard shows the error message in the
\* previewed body, and the host page is not crashed by it
C18_ScriptErrorsShown ==
    surface.mounted /\ surface.srcdoc /= <<>> /\ ScriptOutcome(surface.srcdoc) /= "ran" =>
        /\ MessageShown(surface.srcdoc)
        /\ ~crashed

\* C19: what is previewed is isolated from the host: no step of a script of the
\* document on display changes the FileSet, the active index or the stored entries
\* vibe_files and vibe_active
C19_HostUntouchedByPreview ==
    [][last'.op = "script" =>
        files' = files /\ activeFileIdx' = activeFileIdx /\ storage' = storage]_vars

----------------------------------------------------------------------------
(* The preview timer *)

\* C20: at most one preview timer is pending in every reachable state: a change to
\* the previewed sources clears the pending timer before it starts a new one, and
\* an unmounted component has none pending
C20_OneTimerPending ==
    /\ Len(timers) <= 1
    /\ crashed => timers = <<>>

\* a second change arrived while the first change's timer was pending, and one
\* timer is pending, not yet due
C20_Witness ==
    /\ burst = 2
    /\ Len(timers) = 1
    /\ timers[1].left > 0
    /\ timers[1].doc = CurrentDoc

----------------------------------------------------------------------------
(* The compositor as a function *)

\* the same files under other names: contents, kinds and order are kept
SameButNames(fs) ==
    { [i \in 1..Len(fs) |-> [fs[i] EXCEPT !.name = n[i]]] :
        n \in [1..Len(fs) -> NewNames \cup {<<"x">>}] }

\* C21: the compositor is a function of the contents, kinds and order of the files
\* alone (file sets that agree in these get the same document, whatever the names),
\* and the step that builds the document and hands it to the surface changes
\* neither the FileSet, nor the active index, nor what is stored
C21_ComposePure ==
    /\ [](variant = "unified" =>
            \A gs \in SameButNames(files) : buildSrcDoc(gs) = buildSrcDoc(files))
    /\ [][RenderStep =>
            /\ files' = files /\ activeFileIdx' = activeFileIdx /\ storage' = storage
            /\ htmlFiles' = htmlFiles /\ jsFiles' = jsFiles /\ css' = css]_vars

\* the document on display was built before a file was renamed, and is still the
\* document of the renamed file set
C21_Witness ==
    /\ variant = "unified"
    /\ last.op = "rename"
    /\ surface.srcdoc /= <<>>
    /\ surface.srcdoc = buildSrcDoc(files)

----------------------------------------------------------------------------
(* Frames of the operations *)

\* operations that are no change of the previewed sources' contents
NotRendering == {"select", "rename", "layout", "fullscreen", "export", "run"}

\* C22: the content of the render surface is changed by the render step only: a
\* surface on display before and after a select, a rename, a layout or fullscreen
\* toggle, an export or a Python run shows what it showed before
C22_SurfaceWrittenByRenderOnly ==
    [][last'.op \in NotRendering /\ surface.mounted /\ surface'.mounted =>
        surface'.srcdoc = surface.srcdoc]_vars

\* C23: a rename of the file at index i changes that file's name and nothing else,
\* and an editor change replaces the active file's content by the text typed and
\* nothing else: the number of files, their order, every kind, every other name and
\* content and the active index stay; a name another file has is accepted
C23_FieldEditsLocal ==
    [][variant = "unified" =>
        /\ StepOf("rename") =>
            /\ Len(files') = Len(files)
            /\ activeFileIdx' = activeFileIdx
            /\ files'[last'.idx + 1].name \in NewNames
            /\ \A i \in 1..Len(files) :
                    /\ files'[i].type = files[i].type
                    /\ files'[i].code = files[i].code
                    /\ i /= last'.idx + 1 => files'[i].name = files[i].name
        /\ StepOf("edit") =>
            /\ Len(files') = Len(files)
            /\ activeFileIdx' = activeFileIdx
            /\ last'.idx = activeFileIdx
            /\ files'[activeFileIdx + 1].code \in EditTexts
            /\ \A i \in 1..Len(files) :
                    /\ files'[i].type = files[i].type
                    /\ files'[i].name = files[i].name
                    /\ i /= activeFileIdx + 1 => files'[i].code = files[i].code]_vars

\* a file was given the name another file has
C23_Witness ==
    /\ variant = "unified"
    /\ last.op = "rename"
    /\ \E i \in 1..Len(files) :
            i /= last.idx + 1 /\ files[i].name = files[last.idx + 1].name

\* the number of files of a kind in a list of either variant
KindCount(fs, kind) == Cardinality({i \in 1..Len(fs) : fs[i].type = kind})

\* the name every new file of a kind starts with: the kind's label in lower case in
\* the unified variant, index / script in the per-kind variant
DefaultName(kind) ==
    IF variant = "unified"
    THEN CASE kind = "html" -> "html" [] kind = "css" -> "css" [] kind = "js" -> "js"
           [] kind = "py" -> "python" [] kind = "md" -> "markdown"
    ELSE CASE kind = "html" -> "index" [] kind = "js" -> "script"

\* C24 as stated: a file added for a kind is appended at the end, with the kind's
\* placeholder content and the kind's default name followed by n, n being the
\* number of files of the kind before the call plus one, for every n >= 1
C24_AddedNameNumbered ==
    [][variant = "unified" /\ StepOf("add") =>
        LET kind == last'.kind
            n == KindCount(files, kind) + 1
        IN  /\ Len(files') = Len(files) + 1
            /\ \A i \in 1..Len(files) : files'[i] = files[i]
            /\ files'[Len(files')].type = kind
            /\ files'[Len(files')].code = Lang(kind).sample
            /\ files'[Len(files')].name = <<DefaultName(kind) \o ToString(n), DOT, kind>>]_vars

\* C24 as the code has it: the same, with the number written only when n >= 2; the
\* first file of a kind gets the default name alone
C24_AddedNameNumberedFromTwo ==
    /\ [][variant = "unified" /\ StepOf("add") =>
        LET kind == last'.kind
            n == KindCount(files, kind) + 1
        IN  /\ Len(files') = Len(files) + 1
            /\ \A i \in 1..Len(files) : files'[i] = files[i]
            /\ files'[Len(files')].type = kind
            /\ files'[Len(files')].code = Lang(kind).sample
            /\ files'[Len(files')].name =
                    <<DefaultName(kind) \o (IF n >= 2 THEN ToString(n) ELSE ""), DOT, kind>>]_vars
    /\ [][variant = "perkind" /\ StepOf("add") =>
        LET kind == last'.kind
            old == IF kind = "html" THEN htmlFiles ELSE jsFiles
            new == IF kind = "html" THEN htmlFiles' ELSE jsFiles'
            n == Len(old) + 1
        IN  /\ Len(new) = n
            /\ \A i \in 1..Len(old) : new[i] = old[i]
            /\ new[n].name = <<DefaultName(kind) \o (IF n >= 2 THEN ToString(n) ELSE ""), DOT, kind>>
            /\ \E i \in 1..Len(new[n].code) :
                    new[n].code[i] \in {"<h1>Hello, Vibe " \o ToString(n) \o "!</h1>",
                                        "Vibe JS " \o ToString(n) \o "!"}]_vars

\* a first Python file and a third css file have both been added
C24_Witness ==
    /\ variant = "unified"
    /\ last.op = "add"
    /\ \E i \in 1..Len(files) : files[i].name = <<"python", DOT, "py">>
    /\ \E i \in 1..Len(files) : files[i].name = <<"css3", DOT, "css">>

----------------------------------------------------------------------------
(* The stored entries *)

\* the stored active index is an index of the stored file list
StoredConsistent(st) == loadActive(st) \in 0..(Len(loadFiles(st)) - 1)

\* C25: the two stored entries stay consistent with each other: no step of the App,
\* not even one in which the write of the file list fails and the write of the
\* active index succeeds, makes the stored index point outside the stored list
C25_StoredEntriesConsistent ==
    [][StoredConsistent(storage) => StoredConsistent(storage')]_vars

----------------------------------------------------------------------------
(* The file list of the unified variant *)

\* C26: the file list of the unified variant is never empty: a remove is refused
\* when one file is left, and an import that yields no file is rejected
C26_ListNeverEmpty ==
    /\ [](variant = "unified" => Len(files) >= 1)
    /\ [][variant = "unified" /\ StepOf("remove") /\ Len(files) = 1 => files' = files]_vars

\* the x of the only file left was clicked, and the file is still there
C26_Witness ==
    /\ variant = "unified"
    /\ last = Op("remove", "html", 0)
    /\ Len(files) = 1
    /\ files[1].type = "html"

\* no two files of the same kind have the same name
NoSameName(fs) ==
    \A i, j \in 1..Len(fs) :
        i /= j /\ fs[i].type = fs[j].type => fs[i].name /= fs[j].name

\* the name addFile gives the n-th file of a kind
NumberedName(kind, n) == <<DefaultName(kind) \o (IF n >= 2 THEN ToString(n) ELSE ""), DOT, kind>>

\* the file has the name and kind of one of the default files
IsDefault(f) ==
    \E d \in 1..Len(DEFAULT_FILES) :
        DEFAULT_FILES[d].name = f.name /\ DEFAULT_FILES[d].type = f.type

\* every name is a default file's or one addFile generates
AllGenerated(fs) ==
    \A i \in 1..Len(fs) :
        /\ fs[i].type \in Kinds
        /\ IsDefault(fs[i]) \/ \E n \in 1..9 : fs[i].name = NumberedName(fs[i].type, n)

\* a list as add operations alone build it from the default files: the j-th file of
\* each kind has the j-th generated name, or is the default file when j = 1
AddedOnly(fs) ==
    \A i \in 1..Len(fs) :
        /\ fs[i].type \in Kinds
        /\ LET j == KindCount(SubSeq(fs, 1, i), fs[i].type)
           IN  fs[i].name = NumberedName(fs[i].type, j) \/ (j = 1 /\ IsDefault(fs[i]))

\* the same for a list of the per-kind variant
AddedOnlyOfKind(fs, kind) == \A i \in 1..Len(fs) : fs[i].name = NumberedName(kind, i)

\* C27 as stated: generated names do not collide: an add on a list of distinct
\* generated names (as adds and removes leave it) gives distinct names again
C27_GeneratedNamesDistinct ==
    [][variant = "unified" /\ StepOf("add") /\ AllGenerated(files) /\ NoSameName(files) =>
        NoSameName(files')]_vars

\* C27 as the code has it: with add operations alone (no remove, no rename, no
\* import) no two files of the same kind get the same name
C27_AddedNamesDistinct ==
    /\ [][variant = "unified" /\ StepOf("add") /\ AddedOnly(files) =>
            AddedOnly(files') /\ NoSameName(files')]_vars
    /\ [](variant = "unified" /\ files = DEFAULT_FILES => AddedOnly(files))
    /\ [][variant = "perkind" /\ StepOf("add")
            /\ AddedOnlyOfKind(htmlFiles, "html") /\ AddedOnlyOfKind(jsFiles, "js") =>
                /\ AddedOnlyOfKind(htmlFiles', "html") /\ AddedOnlyOfKind(jsFiles', "js")
                /\ \A i, j \in 1..Len(htmlFiles') : i /= j => htmlFiles'[i].name /= htmlFiles'[j].name
                /\ \A i, j \in 1..Len(jsFiles') : i /= j => jsFiles'[i].name /= jsFiles'[j].name]_vars
    /\ [](variant = "perkind" /\ last.op = "load" =>
            AddedOnlyOfKind(htmlFiles, "html") /\ AddedOnlyOfKind(jsFiles, "js"))

\* two files were added to the default files, the second of a kind present twice
C27_Witness ==
    /\ variant = "unified"
    /\ last.op = "add"
    /\ Len(files) = 5
    /\ AddedOnly(files)
    /\ KindCount(files, last.kind) >= 2

----------------------------------------------------------------------------
(* Export followed by import *)

\* the names are pairwise distinct and each ends in the extension of the file's kind
WellNamed(fs) ==
    /\ \A i, j \in 1..Len(fs) : i /= j => fs[i].name /= fs[j].name
    /\ \A i \in 1..Len(fs) :
            /\ fs[i].type \in Kinds
            /\ Len(fs[i].name) >= 2
            /\ fs[i].name[Len(fs[i].name) - 1] = DOT
            /\ fs[i].name[Len(fs[i].name)] = fs[i].type

\* C28: export followed by import is the identity on well-named file sets: the
\* archive exported from such a set holds, read as import reads it, the same files
\* (name, kind, content) in the same order, and importing the downloaded archive
\* makes exactly those files the FileSet, with the active index 0
C28_ExportImportIdentity ==
    /\ [][StepOf("export") /\ WellNamed(files) => ImportedFiles(exported') = files]_vars
    /\ [][Imported /\ Head(uploads) = exported =>
            files' = ImportedFiles(exported) /\ activeFileIdx' = 0]_vars

\* the four files of the stored session were exported while main.js was active and
\* the archive was imported
C28_Witness ==
    /\ last = Op("import", "done", 0)
    /\ exported.ok
    /\ Len(files) = 4
    /\ WellNamed(files)
    /\ files = ImportedFiles(exported)
    /\ activeFileIdx = 0

----------------------------------------------------------------------------
(* The Python runner *)

\* no runPython call is suspended at an await
NoRunInFlight == \A r \in 1..Len(py.runs) : py.runs[r] = "done"

\* C29: once no run is in flight the output on display is the result or the error
\* text of the run started last, however the runs overlapped
C29_LastRunShown ==
    variant = "unified" /\ ~crashed /\ py.started >= 1 /\ NoRunInFlight =>
        pyOutput.run = py.started /\ pyOutput.kind \in {"result", "error"}

\* C30: the interpreter is initialised at most once per page load: the loader
\* script element is appended at most once and window.loadPyodide is called at
\* most once, however the runPython calls overlap
C30_InterpreterLoadedOnce ==
    py.scripts <= 1 /\ py.inits <= 1

====
